---- MODULE Spec2Model ----
(***************************************************************************)
(* The three documents of the repository that carry code, replayed top to  *)
(* bottom over a Python namespace:                                         *)
(*   "readme"  the example of README.md (lines 68-128), one action per     *)
(*             statement;                                                  *)
(*   "es"      the electronic structure notebook (src/unnamed/part_000),   *)
(*             one action per code cell;                                   *)
(*   "gss"     docs/tutorials/03_ground_state_solvers.ipynb, one action    *)
(*             per code cell.                                              *)
(* The library calls the documents make (problems, converters, circuits,   *)
(* eigensolvers) are operators; the outputs stored in the notebooks are    *)
(* data transcribed from the notebook files.                               *)
(***************************************************************************)
EXTENDS Integers, Sequences, FiniteSets, TLC

VARIABLES doc, pc, ns, out, hist

vars == <<doc, pc, ns, out, hist>>

(***************************************************************************)
(* Bounds                                                                  *)
(***************************************************************************)
\* largest number of molecular orbitals a driver run may report
MaxMO == 3
\* number of vibrational modes of the molecule the filter cell solves
MaxModes == 2
\* largest harmonic level energy (cm^-1) of one modal
MaxLevel == 2

(***************************************************************************)
(* Values of the namespace: every value is a record with a kind.           *)
(***************************************************************************)
Unbound == [kind |-> "unbound"]

None == [kind |-> "None"]

Docs == {"readme", "es", "gss", "library"}

\* what a driver run reports about the molecule
Molecules ==
    { m \in [nmo : 1..MaxMO, num_alpha : 0..MaxMO, num_beta : 0..MaxMO] :
        m.num_alpha <= m.nmo /\ m.num_beta <= m.nmo }

NoMoleculeData == [nmo |-> 0, num_alpha |-> 0, num_beta |-> 0]

\* H2 in the STO-3G basis: 2 molecular orbitals, one alpha and one beta electron
H2 == [nmo |-> 2, num_alpha |-> 1, num_beta |-> 1]

IntVal(v) == [kind |-> "int", value |-> v]

Tuple(a, b) == [kind |-> "tuple", num_alpha |-> a, num_beta |-> b]

List(s) == [kind |-> "list", items |-> s]

Opaque(name) == [kind |-> "object", name |-> name]

(***************************************************************************)
(* Drivers and problems                                                    *)
(***************************************************************************)
PySCFDriver == [kind |-> "driver", name |-> "PySCFDriver"]

GaussianForcesDriver == [kind |-> "driver", name |-> "GaussianForcesDriver"]

ElectronicStructureProblem(driver) ==
    [kind |-> "problem", type |-> "electronic", driver |-> driver,
     ran |-> FALSE, molecule_data |-> NoMoleculeData]

\* the driver is run by second_q_ops(), which stores what it reports
RunDriver(problem, mol) ==
    [problem EXCEPT !.ran = TRUE, !.molecule_data = mol]

ElectronicOpNames ==
    <<"hamiltonian", "particle_number", "angular_momentum", "magnetization",
      "dipole_x", "dipole_y", "dipole_z">>

FermionicOp(name, n) ==
    [kind |-> "fermionic_op", name |-> name, register_length |-> n]

\* the second-quantized operators of a problem whose driver has run: the
\* Hamiltonian first, each on one register entry per spin orbital
second_q_ops(problem) ==
    [i \in 1..Len(ElectronicOpNames) |->
        FermionicOp(ElectronicOpNames[i], 2 * problem.molecule_data.nmo)]

(***************************************************************************)
(* Mappers and the qubit converter                                         *)
(***************************************************************************)
QubitConverter(mapper, two_qubit_reduction) ==
    [kind |-> "converter", mapper |-> mapper,
     two_qubit_reduction |-> two_qubit_reduction,
     did_two_q_reduce |-> FALSE]

PauliSumOp(n, of, mapper) ==
    [kind |-> "qubit_op", num_qubits |-> n, of |-> of, mapper |-> mapper]

\* the two-qubit reduction is applied to a parity-mapped operator when the
\* converter asks for it and the particle numbers are given
DoesReduce(conv, particles_given) ==
    particles_given /\ conv.two_qubit_reduction /\ conv.mapper = "parity"

\* convert(op, num_particles): the qubit operator, and the converter, which
\* remembers whether it reduced (convert_match repeats that reduction)
Convert(conv, op, particles_given) ==
    LET red == DoesReduce(conv, particles_given)
        n   == IF red THEN op.register_length - 2 ELSE op.register_length
    IN  [op   |-> PauliSumOp(n, op.name, conv.mapper),
         conv |-> [conv EXCEPT !.did_two_q_reduce = red]]

(***************************************************************************)
(* Circuits                                                                *)
(***************************************************************************)
\* occupied spin orbitals: the first num_alpha of the alpha half and the
\* first num_beta of the beta half
hartree_fock_bitstring(n, na, nb) ==
    [i \in 1..n |->
        IF i <= na \/ (i > n \div 2 /\ i <= n \div 2 + nb) THEN 1 ELSE 0]

RECURSIVE SumTo(_, _)
SumTo(s, i) == IF i = 0 THEN 0 ELSE s[i] + SumTo(s, i - 1)

\* parity encoding: qubit i holds the parity of the orbitals up to i
ParityEncode(bits) == [i \in 1..Len(bits) |-> SumTo(bits, i) % 2]

\* the reduction drops the last qubit of each spin half
TwoQubitReduce(bits) ==
    LET n == Len(bits)
        keep == [i \in 1..(n - 2) |-> IF i < n \div 2 THEN i ELSE i + 1]
    IN  [i \in 1..(n - 2) |-> bits[keep[i]]]

EncodeBits(conv, bits) ==
    LET mapped == IF conv.mapper = "parity" THEN ParityEncode(bits) ELSE bits
    IN  IF conv.did_two_q_reduce THEN TwoQubitReduce(mapped) ELSE mapped

Circuit(n, parts, bits) ==
    [kind |-> "circuit", num_qubits |-> n, parts |-> parts, x_bits |-> bits]

\* HartreeFock(num_spin_orbitals, num_particles, qubit_converter): an X gate
\* on every qubit the encoded bitstring sets
HartreeFock(n, particles, conv) ==
    LET bits == EncodeBits(conv,
                    hartree_fock_bitstring(n, particles.num_alpha, particles.num_beta))
    IN  Circuit(Len(bits), <<"HF">>, bits)

TwoLocal(n) == Circuit(n, <<"TwoLocal">>, <<>>)

\* QuantumCircuit.compose(other, front, inplace): with inplace the receiver
\* is changed and None returned; without it the receiver is left alone and
\* the composed circuit is returned
Compose(self, other, front, inplace) ==
    LET composed ==
            Circuit(self.num_qubits,
                    IF front THEN other.parts \o self.parts
                             ELSE self.parts \o other.parts,
                    IF other.x_bits # <<>> THEN other.x_bits ELSE self.x_bits)
    IN  [self |-> IF inplace THEN composed ELSE self,
         ret  |-> IF inplace THEN None ELSE composed]

(***************************************************************************)
(* VQE                                                                     *)
(***************************************************************************)
VQE(ansatz, optimizer, quantum_instance) ==
    [kind |-> "vqe", ansatz |-> ansatz, optimizer |-> optimizer,
     quantum_instance |-> quantum_instance]

\* the ansatz is resized to the operator when their qubit counts differ
compute_minimum_eigenvalue(algorithm, op) ==
    [kind |-> "result", operator |-> op,
     ansatz |-> [algorithm.ansatz EXCEPT !.num_qubits = op.num_qubits]]

interpret(problem, result) ==
    [kind |-> "electronic_structure_result", raw_result |-> result,
     problem_type |-> problem.type]

(***************************************************************************)
(* Printed decimal numbers.  A number printed with 12 decimals is kept as  *)
(* sign, integer part and two limbs of six decimals each:                  *)
(*   value = (-1)^neg * (int + hi / 10^6 + lo / 10^12)                     *)
(***************************************************************************)
Fix(neg, int, hi, lo) == [neg |-> neg, int |-> int, hi |-> hi, lo |-> lo]

FixZero == Fix(FALSE, 0, 0, 0)

IsZero(a) == a.int = 0 /\ a.hi = 0 /\ a.lo = 0

MagLess(a, b) ==
    \/ a.int < b.int
    \/ a.int = b.int /\ a.hi < b.hi
    \/ a.int = b.int /\ a.hi = b.hi /\ a.lo < b.lo

MagAdd(a, b) ==
    LET lo == a.lo + b.lo
        hi == a.hi + b.hi + lo \div 1000000
    IN  [int |-> a.int + b.int + hi \div 1000000,
         hi |-> hi % 1000000, lo |-> lo % 1000000]

\* a - b for magnitudes with b <= a
MagSub(a, b) ==
    LET lo == a.lo - b.lo
        b1 == IF lo < 0 THEN 1 ELSE 0
        hi == a.hi - b.hi - b1
        b2 == IF hi < 0 THEN 1 ELSE 0
    IN  [int |-> a.int - b.int - b2,
         hi |-> hi + b2 * 1000000, lo |-> lo + b1 * 1000000]

Signed(neg, m) == Fix(neg /\ ~IsZero(m), m.int, m.hi, m.lo)

FixAdd(a, b) ==
    IF a.neg = b.neg THEN Signed(a.neg, MagAdd(a, b))
    ELSE IF MagLess(a, b) THEN Signed(b.neg, MagSub(b, a))
    ELSE Signed(a.neg, MagSub(a, b))

FixNeg(a) == Signed(~a.neg, a)

FixSub(a, b) == FixAdd(a, FixNeg(b))

\* a <= b
FixLeq(a, b) ==
    LET d == FixSub(b, a) IN ~d.neg

\* round(x, 9): the last three of the twelve decimals are dropped, a half
\* going to the even neighbour
Round9(a) ==
    LET q  == a.lo \div 1000
        r  == a.lo % 1000
        up == r > 500 \/ (r = 500 /\ q % 2 = 1)
        m  == [int |-> a.int, hi |-> a.hi, lo |-> q * 1000]
    IN  IF up THEN Signed(a.neg, MagAdd(m, [int |-> 0, hi |-> 0, lo |-> 1000]))
        ELSE Signed(a.neg, m)

\* |x| < 10^-10
WithinTenDecimals(a) == a.int = 0 /\ a.hi = 0 /\ a.lo < 100

(***************************************************************************)
(* Outputs stored in the electronic structure notebook                     *)
(***************************************************************************)
\* src/unnamed/part_000:157-170  print(second_q_op[0])
RecordedSecondQOp ==
    <<<<"+", "-", "+", "-">>,
      <<"+", "-", "-", "+">>,
      <<"-", "+", "+", "-">>,
      <<"-", "+", "-", "+">>,
      <<"I", "I", "I", "N">>,
      <<"I", "I", "N", "I">>,
      <<"I", "I", "N", "N">>,
      <<"I", "N", "I", "I">>,
      <<"I", "N", "I", "N">>,
      <<"I", "N", "N", "I">>,
      <<"N", "I", "I", "I">>,
      <<"N", "I", "I", "N">>,
      <<"N", "I", "N", "I">>,
      <<"N", "N", "I", "I">>>>

\* the Jordan-Wigner cell storing the output of the parity cell
RecordedJordanWignerOp_Stale ==
    <<<<"I", "I">>, <<"Z", "I">>, <<"I", "Z">>, <<"Z", "Z">>, <<"X", "X">>>>

\* src/unnamed/part_000:196-210  print(qubit_op), Jordan-Wigner
RecordedJordanWignerOp ==
    <<<<"I", "I", "I", "I">>,
      <<"Z", "I", "I", "I">>,
      <<"I", "Z", "I", "I">>,
      <<"Z", "Z", "I", "I">>,
      <<"I", "I", "Z", "I">>,
      <<"Z", "I", "Z", "I">>,
      <<"I", "Z", "Z", "I">>,
      <<"I", "I", "I", "Z">>,
      <<"Z", "I", "I", "Z">>,
      <<"I", "Z", "I", "Z">>,
      <<"I", "I", "Z", "Z">>,
      <<"X", "X", "X", "X">>,
      <<"Y", "Y", "X", "X">>,
      <<"X", "X", "Y", "Y">>,
      <<"Y", "Y", "Y", "Y">>>>

\* src/unnamed/part_000:236-240  print(qubit_op), parity with two-qubit reduction
RecordedParityOp ==
    <<<<"I", "I">>,
      <<"Z", "I">>,
      <<"I", "Z">>,
      <<"Z", "Z">>,
      <<"X", "X">>>>

\* execution_count of the code cells, in document order
ExecCountES == <<1, 2, 3, 4, 5, 6>>

Printed(object, text) == [kind |-> "printed", object |-> object, text |-> text]

(***************************************************************************)
(* Outputs stored in the ground state solvers notebook                     *)
(* (docs/tutorials/03_ground_state_solvers.ipynb)                          *)
(***************************************************************************)
ElectronicReport(elec, computed, nuc, total, particles) ==
    [elec |-> elec, computed |-> computed, nuc |-> nuc, total |-> total,
     particles |-> particles]

\* a VQE report of a run that stopped short of the minimum
RecordedVQEReport_Unconverged ==
    ElectronicReport(Fix(TRUE, 1, 857274, 120145), Fix(TRUE, 1, 857274, 120145),
                     Fix(FALSE, 0, 719968, 994449), Fix(TRUE, 1, 137305, 125696), 2)

\* lines 143-150  print(res) after the VQE solve
RecordedVQEReport ==
    ElectronicReport(Fix(TRUE, 1, 857275, 30145), Fix(TRUE, 1, 857275, 30145),
                     Fix(FALSE, 0, 719968, 994449), Fix(TRUE, 1, 137306, 35696), 2)

\* a NumPy report whose total is the VQE run's
RecordedNumPyReport_WrongTotal ==
    ElectronicReport(Fix(TRUE, 1, 857275, 30202), Fix(TRUE, 1, 857275, 30202),
                     Fix(FALSE, 0, 719968, 994449), Fix(TRUE, 1, 137306, 35696), 2)

\* lines 192-199  print(res) after the NumPy solve
RecordedNumPyReport ==
    ElectronicReport(Fix(TRUE, 1, 857275, 30202), Fix(TRUE, 1, 857275, 30202),
                     Fix(FALSE, 0, 719968, 994449), Fix(TRUE, 1, 137306, 35753), 2)

\* The dipole block of an electronic report.  Every component is printed
\* with 8 decimals and is held as an integer count of 10^-8 a.u.
DipoleReport(nuclear, electronic, computed, dipole, total) ==
    [nuclear |-> nuclear, electronic |-> electronic, computed |-> computed,
     dipole |-> dipole, total |-> total]

\* the VQE report's electronic dipole under the NumPy report's total dipole
RecordedVQEDipole_Stale ==
    DipoleReport(<<0, 0, 138894870>>, <<0, 0, 138894891>>, <<0, 0, 138894891>>,
                 <<0, 0, 0>>, 0)

\* lines 154-159  the dipole block of print(res) after the VQE solve
RecordedVQEDipole ==
    DipoleReport(<<0, 0, 138894870>>, <<0, 0, 138894891>>, <<0, 0, 138894891>>,
                 <<0, 0, -21>>, 21)

\* lines 203-208  the dipole block of print(res) after the NumPy solve
RecordedNumPyDipole ==
    DipoleReport(<<0, 0, 138894870>>, <<0, 0, 138894870>>, <<0, 0, 138894870>>,
                 <<0, 0, 0>>, 0)

\* a whole electronic report: the energy block followed by the dipole block
WithDipole(report, dip) ==
    [elec |-> report.elec, computed |-> report.computed, nuc |-> report.nuc,
     total |-> report.total, particles |-> report.particles, dipole |-> dip]

VibrationalReport(energy, occ) == [energy |-> energy, occ |-> occ]

\* the first report showing the filtered state instead
RecordedFirstVibReport_Stale ==
    VibrationalReport(Fix(FALSE, 2553, 464851, 175482),
                      <<Fix(FALSE, 0, 999999, 999999), Fix(FALSE, 0, 999999, 999999),
                        Fix(FALSE, 0, 999999, 999999), Fix(FALSE, 0, 999999, 999999)>>)

\* lines 245-247  the first report the filter cell prints: (1e-11+0j), all 0.0
RecordedFirstVibReport ==
    VibrationalReport(Fix(FALSE, 0, 0, 10), <<FixZero, FixZero, FixZero, FixZero>>)

\* lines 253-255  the second report the filter cell prints:
\* (2553.464851175482+0j), occupations 0.9999999999999999 (kept to 12 decimals)
RecordedSecondVibReport ==
    VibrationalReport(Fix(FALSE, 2553, 464851, 175482),
                      <<Fix(FALSE, 0, 999999, 999999), Fix(FALSE, 0, 999999, 999999),
                        Fix(FALSE, 0, 999999, 999999), Fix(FALSE, 0, 999999, 999999)>>)

\* execution_count of the code cells, in document order
ExecCountGSS == <<21, 22, 23, 24, 25, 26, 16, 17>>

(***************************************************************************)
(* Ground state solvers                                                    *)
(***************************************************************************)
Solver(name, use_default_filter_criterion) ==
    [kind |-> "solver", name |-> name,
     use_default_filter_criterion |-> use_default_filter_criterion]

NumPyMinimumEigensolver == Solver("NumPyMinimumEigensolver", FALSE)

VQEUCCFactory == Solver("VQEUCCFactory", FALSE)

NumPyMinimumEigensolverFactory(use_default_filter_criterion) ==
    Solver("NumPyMinimumEigensolverFactory", use_default_filter_criterion)

GroundStateEigensolver(converter, solver) ==
    [kind |-> "ground_state_eigensolver", converter |-> converter, solver |-> solver]

VibrationalStructureProblem(driver, num_modals, truncation_order) ==
    [kind |-> "problem", type |-> "vibrational", driver |-> driver,
     ran |-> FALSE, molecule_data |-> NoMoleculeData]

\* GroundStateEigensolver.solve(problem) for an electronic problem: the
\* driver is run, the Hamiltonian converted with the particle numbers, the
\* factory's solver built (VQEUCCFactory starts it from the Hartree-Fock
\* state of the converter) and the report interpreted
SolveElectronic(gse, problem, mol, report) ==
    LET ran == RunDriver(problem, mol)
        c   == Convert(gse.converter, second_q_ops(ran)[1], TRUE)
    IN  [problem |-> ran,
         res |-> [kind |-> "electronic_result", solver |-> gse.solver,
                  converter |-> c.conv, operator |-> c.op,
                  initial_state |->
                      IF gse.solver.name = "VQEUCCFactory"
                      THEN HartreeFock(2 * mol.nmo,
                                       Tuple(mol.num_alpha, mol.num_beta), c.conv)
                      ELSE None,
                  report |-> report]]

\* GroundStateEigensolver.solve(problem) for the vibrational problem
SolveVibrational(gse, problem, report) ==
    [kind |-> "vibrational_result", solver |-> gse.solver,
     converter |-> gse.converter, report |-> report]

(***************************************************************************)
(* The NumPy minimum eigensolver with a filter criterion                   *)
(***************************************************************************)
FixOf(n, residue) == Fix(FALSE, n, 0, residue)

NoEigenstate == [kind |-> "None"]

Eigenstate(energy, aux) == [kind |-> "eigenstate", energy |-> energy, aux |-> aux]

\* the eigenstates of lowest energy among S
Lowest(S) == { s \in S : \A t \in S : FixLeq(s.energy, t.energy) }

\* what the solver may return: a lowest eigenstate of those that pass the
\* filter (all of them without a filter), None when none passes
MinimumEigenstates(spectrum, passing, use_filter) ==
    LET kept == IF use_filter THEN spectrum \cap passing ELSE spectrum
    IN  IF kept = {} THEN {NoEigenstate} ELSE Lowest(kept)

\* default criterion of the electronic problem: the particle number is the
\* problem's
ElectronicCriterion(spectrum, expected) == { s \in spectrum : s.aux = expected }

\* default criterion of the vibrational problem: one occupied modal per mode
VibrationalCriterion(spectrum) ==
    { s \in spectrum : \A m \in DOMAIN s.aux : s.aux[m] = 1 }

\* the modals of each mode that a basis state occupies, two modals a mode
VibOccupations(modes) == [1..modes -> SUBSET {1, 2}]

RECURSIVE SumLevels(_, _, _)
SumLevels(levels, occ, m) ==
    IF m = 0 THEN 0
    ELSE (IF 1 \in occ[m] THEN levels[m][1] ELSE 0)
         + (IF 2 \in occ[m] THEN levels[m][2] ELSE 0)
         + SumLevels(levels, occ, m - 1)

\* spectrum of a harmonic vibrational Hamiltonian: every basis state, with
\* the sum of the level energies of its occupied modals (and the residue
\* the diagonalisation leaves)
VibrationalSpectrum(modes, levels, residue) ==
    { Eigenstate(FixOf(SumLevels(levels, occ, modes), residue),
                 [m \in 1..modes |-> Cardinality(occ[m])]) :
        occ \in VibOccupations(modes) }

(***************************************************************************)
(* The README example                                                      *)
(***************************************************************************)
ReadmeNames ==
    {"driver", "problem", "second_q_ops", "main_op", "num_particles",
     "num_spin_orbitals", "optimizer", "mapper", "converter", "qubit_op",
     "init_state", "ansatz", "backend", "algorithm", "result",
     "electronic_structure_result"}

ESNames ==
    {"molecule", "driver", "es_problem", "second_q_op", "qubit_converter",
     "qubit_op"}

GSSNames ==
    {"molecule", "driver", "es_problem", "qubit_converter", "numpy_solver",
     "quantum_instance", "vqe_solver", "tl_circuit", "another_solver", "calc",
     "res", "vib_problem", "qubit_covnerter", "solver_without_filter",
     "solver_with_filter", "gsc_wo", "result_wo", "gsc_w", "result_w"}

Names == ReadmeNames \cup ESNames \cup GSSNames

\* the code cells of the ground state solvers notebook, in document order
GSSProgram == <<"gss1", "gss2", "gss3", "gss4", "gss5", "gss6", "gss7", "gss8">>

\* direct calls of the library on bounded inputs
LibraryProgram == <<"call">>

\* the code cells of the electronic structure notebook, in document order
ESProgram == <<"es1", "es2", "es3", "es4", "es5", "es6">>

\* the conversion moved above the statements that make its operands
ReadmeProgram_Reordered ==
    <<"driver", "problem", "optimizer", "mapper", "converter", "qubit_op",
      "second_q_ops", "main_op", "num_particles", "num_spin_orbitals",
      "init_state", "ansatz", "compose", "backend", "algorithm", "result",
      "electronic_structure_result">>

\* the statements of the example, in document order
ReadmeProgram ==
    <<"driver", "problem", "second_q_ops", "main_op", "num_particles",
      "num_spin_orbitals", "optimizer", "mapper", "converter", "qubit_op",
      "init_state", "ansatz", "compose", "backend", "algorithm", "result",
      "electronic_structure_result">>

Program(d) ==
    CASE d = "readme" -> ReadmeProgram
      [] d = "es" -> ESProgram
      [] d = "gss" -> GSSProgram
      [] OTHER -> LibraryProgram

At(d, stmt) ==
    /\ doc = d
    /\ pc <= Len(Program(d))
    /\ Program(d)[pc] = stmt

Advance(stmt, count) ==
    /\ pc' = pc + 1
    /\ hist' = Append(hist, [stmt |-> stmt, execution_count |-> count])
    /\ UNCHANGED doc

Bind(name, val) == ns' = [ns EXCEPT ![name] = val]

Init ==
    /\ doc \in Docs
    /\ pc = 1
    /\ ns = [n \in Names |-> Unbound]
    /\ out = <<>>
    /\ hist = <<>>

\* README.md:75-77  driver = PySCFDriver(atom=..., unit=..., basis='sto3g')
ReadmeDriver ==
    /\ At("readme", "driver")
    /\ Bind("driver", PySCFDriver)
    /\ Advance("driver", 0)
    /\ UNCHANGED out

\* README.md:78  problem = ElectronicStructureProblem(driver)
ReadmeProblem ==
    /\ At("readme", "problem")
    /\ Bind("problem", ElectronicStructureProblem(ns["driver"]))
    /\ Advance("problem", 0)
    /\ UNCHANGED out

\* README.md:81  second_q_ops = problem.second_q_ops(): runs the driver, whose
\* report is the input of the example
ReadmeSecondQOps ==
    /\ At("readme", "second_q_ops")
    /\ \E mol \in Molecules :
          LET ran == RunDriver(ns["problem"], mol)
          IN  ns' = [ns EXCEPT !["problem"] = ran,
                               !["second_q_ops"] = List(second_q_ops(ran))]
    /\ Advance("second_q_ops", 0)
    /\ UNCHANGED out

\* README.md:82  main_op = second_q_ops[0]
ReadmeMainOp ==
    /\ At("readme", "main_op")
    /\ Bind("main_op", ns["second_q_ops"].items[1])
    /\ Advance("main_op", 0)
    /\ UNCHANGED out

\* README.md:84-85  num_particles = (num_alpha, num_beta)
ReadmeNumParticles ==
    /\ At("readme", "num_particles")
    /\ Bind("num_particles",
            Tuple(ns["problem"].molecule_data.num_alpha,
                  ns["problem"].molecule_data.num_beta))
    /\ Advance("num_particles", 0)
    /\ UNCHANGED out

\* README.md:87  num_spin_orbitals = 2 * problem.molecule_data.num_molecular_orbitals
ReadmeNumSpinOrbitals ==
    /\ At("readme", "num_spin_orbitals")
    /\ Bind("num_spin_orbitals", IntVal(2 * ns["problem"].molecule_data.nmo))
    /\ Advance("num_spin_orbitals", 0)
    /\ UNCHANGED out

\* README.md:90-91  optimizer = L_BFGS_B()
ReadmeOptimizer ==
    /\ At("readme", "optimizer")
    /\ Bind("optimizer", Opaque("L_BFGS_B"))
    /\ Advance("optimizer", 0)
    /\ UNCHANGED out

\* README.md:96  mapper = ParityMapper()
ReadmeMapperValue == "parity"

ReadmeMapper ==
    /\ At("readme", "mapper")
    /\ Bind("mapper", [kind |-> "mapper", name |-> ReadmeMapperValue])
    /\ Advance("mapper", 0)
    /\ UNCHANGED out

\* README.md:97  converter = QubitConverter(mapper=mapper, two_qubit_reduction=True)
ReadmeTwoQubitReduction_Off == FALSE

ReadmeTwoQubitReduction == TRUE

ReadmeConverter ==
    /\ At("readme", "converter")
    /\ Bind("converter", QubitConverter(ns["mapper"].name, ReadmeTwoQubitReduction))
    /\ Advance("converter", 0)
    /\ UNCHANGED out

\* README.md:100  qubit_op = converter.convert(main_op, num_particles=num_particles)
ReadmeQubitOp ==
    /\ At("readme", "qubit_op")
    /\ LET c == Convert(ns["converter"], ns["main_op"],
                        ns["num_particles"].kind = "tuple")
       IN  ns' = [ns EXCEPT !["qubit_op"] = c.op, !["converter"] = c.conv]
    /\ Advance("qubit_op", 0)
    /\ UNCHANGED out

\* README.md:104  init_state = HartreeFock(num_spin_orbitals, num_particles, converter)
ReadmeInitState ==
    /\ At("readme", "init_state")
    /\ Bind("init_state",
            HartreeFock(ns["num_spin_orbitals"].value, ns["num_particles"],
                        ns["converter"]))
    /\ Advance("init_state", 0)
    /\ UNCHANGED out

\* README.md:108  ansatz = TwoLocal(num_spin_orbitals, ['ry', 'rz'], 'cz')
ReadmeAnsatz ==
    /\ At("readme", "ansatz")
    /\ Bind("ansatz", TwoLocal(ns["num_spin_orbitals"].value))
    /\ Advance("ansatz", 0)
    /\ UNCHANGED out

\* README.md:111  ansatz.compose(init_state, front=True): inplace is left at
\* its default, False, and the circuit the call returns is bound to no name
ReadmeComposeInplace == FALSE

ReadmeCompose ==
    /\ At("readme", "compose")
    /\ Bind("ansatz",
            Compose(ns["ansatz"], ns["init_state"], TRUE, ReadmeComposeInplace).self)
    /\ Advance("compose", 0)
    /\ UNCHANGED out

\* README.md:114-115  backend = Aer.get_backend('statevector_simulator')
ReadmeBackend ==
    /\ At("readme", "backend")
    /\ Bind("backend", Opaque("statevector_simulator"))
    /\ Advance("backend", 0)
    /\ UNCHANGED out

\* README.md:118-121  algorithm = VQE(ansatz, optimizer=optimizer, quantum_instance=backend)
ReadmeAlgorithm ==
    /\ At("readme", "algorithm")
    /\ Bind("algorithm", VQE(ns["ansatz"], ns["optimizer"], ns["backend"]))
    /\ Advance("algorithm", 0)
    /\ UNCHANGED out

\* README.md:123-124  result = algorithm.compute_minimum_eigenvalue(qubit_op); print
ReadmeResult ==
    /\ At("readme", "result")
    /\ LET r == compute_minimum_eigenvalue(ns["algorithm"], ns["qubit_op"])
       IN  /\ Bind("result", r)
           /\ out' = Append(out, r)
    /\ Advance("result", 0)

\* README.md:126-127  electronic_structure_result = problem.interpret(result); print
ReadmeInterpret ==
    /\ At("readme", "electronic_structure_result")
    /\ LET r == interpret(ns["problem"], ns["result"])
       IN  /\ Bind("electronic_structure_result", r)
           /\ out' = Append(out, r)
    /\ Advance("electronic_structure_result", 0)

(***************************************************************************)
(* The electronic structure notebook (src/unnamed/part_000)                *)
(***************************************************************************)
\* lines 103-107  molecule = Molecule(...); driver = PySCFDriver(molecule=...)
ESCell1 ==
    /\ At("es", "es1")
    /\ ns' = [ns EXCEPT !["molecule"] = Opaque("H2"), !["driver"] = PySCFDriver]
    /\ Advance("es1", ExecCountES[1])
    /\ UNCHANGED out

\* lines 143-145  imports
ESCell2 ==
    /\ At("es", "es2")
    /\ Advance("es2", ExecCountES[2])
    /\ UNCHANGED <<ns, out>>

\* lines 175-177  es_problem = ElectronicStructureProblem(driver);
\* second_q_op = es_problem.second_q_ops(); print(second_q_op[0])
ESCell3 ==
    /\ At("es", "es3")
    /\ LET ran == RunDriver(ElectronicStructureProblem(ns["driver"]), H2)
           ops == second_q_ops(ran)
       IN  /\ ns' = [ns EXCEPT !["es_problem"] = ran,
                               !["second_q_op"] = List(ops)]
           /\ out' = Append(out, Printed(ops[1], RecordedSecondQOp))
    /\ Advance("es3", ExecCountES[3])

\* line 215  QubitConverter(mapper=JordanWignerMapper())
ESJordanWignerConverter == QubitConverter("jordan_wigner", FALSE)

\* lines 215-217  qubit_op = qubit_converter.convert(second_q_op[0]); print(qubit_op)
ESCell4 ==
    /\ At("es", "es4")
    /\ LET c == Convert(ESJordanWignerConverter, ns["second_q_op"].items[1], FALSE)
       IN  /\ ns' = [ns EXCEPT !["qubit_converter"] = c.conv,
                               !["qubit_op"] = c.op]
           /\ out' = Append(out, Printed(c.op, RecordedJordanWignerOp))
    /\ Advance("es4", ExecCountES[4])

\* line 253  QubitConverter(mapper = ParityMapper(), two_qubit_reduction=True)
ESParityConverter == QubitConverter("parity", TRUE)

\* lines 253-255  qubit_op = qubit_converter.convert(second_q_op[0],
\* num_particles=es_problem.num_particles); print(qubit_op)
ESCell5 ==
    /\ At("es", "es5")
    /\ LET c == Convert(ESParityConverter, ns["second_q_op"].items[1],
                        ns["es_problem"].ran)
       IN  /\ ns' = [ns EXCEPT !["qubit_converter"] = c.conv,
                               !["qubit_op"] = c.op]
           /\ out' = Append(out, Printed(c.op, RecordedParityOp))
    /\ Advance("es5", ExecCountES[5])

\* lines 304-306  version table
ESCell6 ==
    /\ At("es", "es6")
    /\ Advance("es6", ExecCountES[6])
    /\ UNCHANGED <<ns, out>>

(***************************************************************************)
(* The ground state solvers notebook                                       *)
(***************************************************************************)
\* the converter built with the parity mapper
GSSQubitConverter_Parity == QubitConverter("parity", FALSE)

\* line 41  qubit_converter = QubitConverter(JordanWignerMapper())
GSSQubitConverter == QubitConverter("jordan_wigner", FALSE)

\* lines 29-41  molecule, driver, es_problem, qubit_converter
GSSCell1 ==
    /\ At("gss", "gss1")
    /\ ns' = [ns EXCEPT !["molecule"] = Opaque("H2"),
                        !["driver"] = PySCFDriver,
                        !["es_problem"] = ElectronicStructureProblem(PySCFDriver),
                        !["qubit_converter"] = GSSQubitConverter]
    /\ Advance("gss1", ExecCountGSS[1])
    /\ UNCHANGED out

\* lines 61-63  numpy_solver = NumPyMinimumEigensolver()
GSSCell2 ==
    /\ At("gss", "gss2")
    /\ Bind("numpy_solver", NumPyMinimumEigensolver)
    /\ Advance("gss2", ExecCountGSS[2])
    /\ UNCHANGED out

\* lines 83-89  quantum_instance = QuantumInstance(...);
\* vqe_solver = VQEUCCFactory(quantum_instance)
GSSCell3 ==
    /\ At("gss", "gss3")
    /\ ns' = [ns EXCEPT !["quantum_instance"] = Opaque("statevector_simulator"),
                        !["vqe_solver"] = VQEUCCFactory]
    /\ Advance("gss3", ExecCountGSS[3])
    /\ UNCHANGED out

\* lines 111-120  tl_circuit = TwoLocal(...); another_solver = VQE(ansatz = tl_circuit, ...)
GSSCell4 ==
    /\ At("gss", "gss4")
    /\ ns' = [ns EXCEPT !["tl_circuit"] = TwoLocal(0),
                        !["another_solver"] =
                            VQE(TwoLocal(0), None, Opaque("statevector_simulator"))]
    /\ Advance("gss4", ExecCountGSS[4])
    /\ UNCHANGED out

\* lines 166-171  calc = GroundStateEigensolver(qubit_converter, vqe_solver);
\* res = calc.solve(es_problem); print(res)
GSSCell5 ==
    /\ At("gss", "gss5")
    /\ LET calc == GroundStateEigensolver(ns["qubit_converter"], ns["vqe_solver"])
           r    == SolveElectronic(calc, ns["es_problem"], H2,
                                   WithDipole(RecordedVQEReport, RecordedVQEDipole))
       IN  /\ ns' = [ns EXCEPT !["calc"] = calc, !["es_problem"] = r.problem,
                               !["qubit_converter"] = r.res.converter,
                               !["res"] = r.res]
           /\ out' = Append(out, Printed(r.res, r.res.report))
    /\ Advance("gss5", ExecCountGSS[5])

\* lines 215-217  calc = GroundStateEigensolver(qubit_converter, numpy_solver);
\* res = calc.solve(es_problem); print(res)
GSSCell6 ==
    /\ At("gss", "gss6")
    /\ LET calc == GroundStateEigensolver(ns["qubit_converter"], ns["numpy_solver"])
           r    == SolveElectronic(calc, ns["es_problem"], H2,
                                   WithDipole(RecordedNumPyReport, RecordedNumPyDipole))
       IN  /\ ns' = [ns EXCEPT !["calc"] = calc, !["es_problem"] = r.problem,
                               !["qubit_converter"] = r.res.converter,
                               !["res"] = r.res]
           /\ out' = Append(out, Printed(r.res, r.res.report))
    /\ Advance("gss6", ExecCountGSS[6])

\* line 271  NumPyMinimumEigensolverFactory(use_default_filter_criterion=False)
GSSSolverWithoutFilter == NumPyMinimumEigensolverFactory(FALSE)

\* the flag of the second factory left off
GSSSolverWithFilter_Off == NumPyMinimumEigensolverFactory(FALSE)

\* line 272  NumPyMinimumEigensolverFactory(use_default_filter_criterion=True)
GSSSolverWithFilter == NumPyMinimumEigensolverFactory(TRUE)

\* lines 260-282  the filter cell: driver, vib_problem, qubit_covnerter, the
\* two factories, gsc_wo, result_wo, gsc_w, result_w; both eigensolvers are
\* given the name qubit_converter; print(result_wo), print(result_w)
GSSCell7 ==
    /\ At("gss", "gss7")
    /\ LET vib    == VibrationalStructureProblem(GaussianForcesDriver, 2, 2)
           gsc_wo == GroundStateEigensolver(ns["qubit_converter"], GSSSolverWithoutFilter)
           gsc_w  == GroundStateEigensolver(ns["qubit_converter"], GSSSolverWithFilter)
           r_wo   == SolveVibrational(gsc_wo, vib, RecordedFirstVibReport)
           r_w    == SolveVibrational(gsc_w, vib, RecordedSecondVibReport)
       IN  /\ ns' = [ns EXCEPT !["driver"] = GaussianForcesDriver,
                               !["vib_problem"] = vib,
                               !["qubit_covnerter"] = QubitConverter("direct", FALSE),
                               !["solver_without_filter"] = GSSSolverWithoutFilter,
                               !["solver_with_filter"] = GSSSolverWithFilter,
                               !["gsc_wo"] = gsc_wo, !["result_wo"] = r_wo,
                               !["gsc_w"] = gsc_w, !["result_w"] = r_w]
           /\ out' = out \o <<Printed(r_wo, r_wo.report), Printed(r_w, r_w.report)>>
    /\ Advance("gss7", ExecCountGSS[7])

\* lines 317-319  version table
GSSCell8 ==
    /\ At("gss", "gss8")
    /\ Advance("gss8", ExecCountGSS[8])
    /\ UNCHANGED <<ns, out>>

(***************************************************************************)
(* Direct calls of the library on bounded inputs                           *)
(***************************************************************************)
\* HartreeFock(num_spin_orbitals, num_particles, converter) after the
\* converter has converted an operator of the molecule
LibHartreeFock ==
    /\ At("library", "call")
    /\ \E mol \in Molecules, mapper \in {"jordan_wigner", "parity"},
          reduction \in BOOLEAN :
          LET n == 2 * mol.nmo
              c == Convert(QubitConverter(mapper, reduction),
                           FermionicOp("hamiltonian", n), TRUE)
          IN  out' = <<[kind |-> "hartree_fock", molecule |-> mol,
                        converter |-> c.conv, operator |-> c.op,
                        circuit |-> HartreeFock(n, Tuple(mol.num_alpha, mol.num_beta),
                                                c.conv)]>>
    /\ Advance("hartree_fock", 0)
    /\ UNCHANGED ns

ElectronicEigenstates ==
    { Eigenstate(FixOf(e, 0), p) : e \in 0..MaxLevel, p \in 0..2 }

\* the factory's solver on an electronic problem with a given spectrum,
\* without and with the default filter
LibSolveElectronic ==
    /\ At("library", "call")
    /\ \E spectrum \in SUBSET ElectronicEigenstates, expected \in 0..2 :
          /\ spectrum # {}
          /\ LET passing == ElectronicCriterion(spectrum, expected)
             IN  \E wo \in MinimumEigenstates(spectrum, passing, FALSE),
                    w \in MinimumEigenstates(spectrum, passing, TRUE) :
                    out' = <<[kind |-> "solve", type |-> "electronic",
                              spectrum |-> spectrum, passing |-> passing, without |-> wo, with |-> w]>>
    /\ Advance("solve_electronic", 0)
    /\ UNCHANGED ns

\* residue the diagonalisation leaves on an eigenvalue, in units of 10^-12
\* (the filter cell's first report shows 1e-11)
Residues == {0, RecordedFirstVibReport.energy.lo}

\* the factory's solver on a vibrational problem, without and with the
\* default filter
LibSolveVibrational ==
    /\ At("library", "call")
    /\ \E modes \in 1..MaxModes, residue \in Residues :
         \E levels \in [1..modes -> [{1, 2} -> 1..MaxLevel]] :
          LET spectrum == VibrationalSpectrum(modes, levels, residue)
              passing  == VibrationalCriterion(spectrum)
          IN  \E wo \in MinimumEigenstates(spectrum, passing, FALSE),
                 w \in MinimumEigenstates(spectrum, passing, TRUE) :
                 out' = <<[kind |-> "solve", type |-> "vibrational",
                           spectrum |-> spectrum, passing |-> passing, without |-> wo, with |-> w]>>
    /\ Advance("solve_vibrational", 0)
    /\ UNCHANGED ns

Next ==
    \/ ReadmeDriver
    \/ ReadmeProblem
    \/ ReadmeSecondQOps
    \/ ReadmeMainOp
    \/ ReadmeNumParticles
    \/ ReadmeNumSpinOrbitals
    \/ ReadmeOptimizer
    \/ ReadmeMapper
    \/ ReadmeConverter
    \/ ReadmeQubitOp
    \/ ReadmeInitState
    \/ ReadmeAnsatz
    \/ ReadmeCompose
    \/ ReadmeBackend
    \/ ReadmeAlgorithm
    \/ ReadmeResult
    \/ ReadmeInterpret
    \/ ESCell1
    \/ ESCell2
    \/ ESCell3
    \/ ESCell4
    \/ ESCell5
    \/ ESCell6
    \/ GSSCell1
    \/ GSSCell2
    \/ GSSCell3
    \/ GSSCell4
    \/ GSSCell5
    \/ GSSCell6
    \/ GSSCell7
    \/ GSSCell8
    \/ LibHartreeFock
    \/ LibSolveElectronic
    \/ LibSolveVibrational

Spec == Init /\ [][Next]_vars

(***************************************************************************)
(* Properties                                                              *)
(***************************************************************************)
Done(d) == doc = d /\ pc > Len(Program(d))

IsPrefix(a, b) == Len(a) <= Len(b) /\ SubSeq(b, 1, Len(a)) = a

Ones(bits) == Cardinality({ i \in DOMAIN bits : bits[i] = 1 })

Zeros(bits) == Cardinality({ i \in DOMAIN bits : bits[i] = 0 })

\* C1: in the README example the circuit VQE is constructed with, and the
\* one compute_minimum_eigenvalue runs, has the Hartree-Fock circuit
\* init_state at its front.
C1_AnsatzStartsWithInitState ==
    (doc = "readme" /\ ns["result"] # Unbound) =>
        /\ IsPrefix(ns["init_state"].parts, ns["algorithm"].ansatz.parts)
        /\ IsPrefix(ns["init_state"].parts, ns["result"].ansatz.parts)

\* C2: converting the main operator with the parity mapper, the two-qubit
\* reduction and the particle numbers gives a qubit operator on two qubits
\* fewer than there are spin orbitals: in the README example for every
\* molecule of the bounded set, in the notebook's parity cell (whose stored
\* Pauli labels have two characters for the four spin orbitals of H2), and
\* in a direct call of the converter.
C2_ParityReductionRemovesTwoQubits ==
    /\ (doc = "readme" /\ ns["qubit_op"] # Unbound) =>
          /\ ns["num_spin_orbitals"].value >= 2
          /\ ns["qubit_op"].of = "hamiltonian"
          /\ ns["qubit_op"].num_qubits = ns["num_spin_orbitals"].value - 2
    /\ (doc = "es" /\ Len(out) >= 3) =>
          LET n == ns["second_q_op"].items[1].register_length
          IN  /\ out[3].object.num_qubits = n - 2
              /\ \A i \in DOMAIN out[3].text : Len(out[3].text[i]) = n - 2
              /\ \A i \in DOMAIN out[1].text : Len(out[1].text[i]) = n
    /\ (doc = "library" /\ out # <<>> /\ out[1].kind = "hartree_fock"
          /\ out[1].converter.mapper = "parity"
          /\ out[1].converter.two_qubit_reduction) =>
             out[1].operator.num_qubits = 2 * out[1].molecule.nmo - 2

\* the README example has converted the Hamiltonian of H2: 4 spin orbitals, 2 qubits
C2_Witness ==
    /\ doc = "readme"
    /\ ns["qubit_op"] # Unbound
    /\ ns["num_spin_orbitals"].value = 4
    /\ ns["qubit_op"].num_qubits = 2

\* the filter cell's two results
VibResults == {ns["result_wo"], ns["result_w"]}

Filtered(r) == r.solver.use_default_filter_criterion

\* C3: with the default filter criterion the factory's solver returns a
\* lowest eigenstate among those that satisfy the criterion, without it a
\* lowest eigenstate of all; so the filtered energy is never below the
\* unfiltered one and equals it whenever the unfiltered ground state
\* satisfies the criterion.  Stated of the solver on every spectrum of the
\* bounded sets, and of the two results of the filter cell.
C3_FilteredNeverBelowUnfiltered ==
    /\ (doc = "library" /\ out # <<>> /\ out[1].kind = "solve") =>
          LET e == out[1]
          IN  /\ e.without \in e.spectrum
              /\ \A s \in e.spectrum : FixLeq(e.without.energy, s.energy)
              /\ (e.passing = {}) <=> (e.with = NoEigenstate)
              /\ e.with # NoEigenstate =>
                    /\ e.with \in e.passing
                    /\ \A s \in e.passing : FixLeq(e.with.energy, s.energy)
                    /\ FixLeq(e.without.energy, e.with.energy)
                    /\ e.without \in e.passing => e.with.energy = e.without.energy
    /\ (doc = "gss" /\ ns["result_w"] # Unbound) =>
          /\ \E r \in VibResults : Filtered(r)
          /\ \E r \in VibResults : ~Filtered(r)
          /\ \A a, b \in VibResults :
                (~Filtered(b) /\ a.converter = b.converter) =>
                    FixLeq(b.report.energy, a.report.energy)

\* the solver was given a spectrum of several eigenstates whose unfiltered
\* ground state satisfies the criterion, though not every eigenstate does
C3_Witness ==
    /\ doc = "library"
    /\ out # <<>>
    /\ out[1].kind = "solve"
    /\ out[1].without \in out[1].passing
    /\ out[1].passing # out[1].spectrum
    /\ out[1].with.energy = out[1].without.energy

IsVacuumReport(rep) == \A i \in DOMAIN rep.occ : IsZero(rep.occ[i])

NoModalEmpty(rep) == \A i \in DOMAIN rep.occ : ~IsZero(rep.occ[i])

IsVacuumState(s) == \A m \in DOMAIN s.aux : s.aux[m] = 0

\* C4 as claimed: for the vibrational problem the state returned without
\* the filter is the vacuum (every occupation 0) with an energy that is 0
\* at the 12 decimals printed, and the state returned with the default
\* filter is not the vacuum (its occupations are non-zero).  Stated of the
\* reports the filter cell stores.
C4_VacuumEnergyIsZeroAsPrinted ==
    (doc = "gss" /\ ns["result_w"] # Unbound) =>
          \A r \in VibResults :
             /\ ~Filtered(r) => IsVacuumReport(r.report) /\ IsZero(r.report.energy)
             /\ Filtered(r) => NoModalEmpty(r.report)

\* C4 as amended: the state returned without the filter is the vacuum and
\* its energy is 0 to within 10^-10 (the stored report prints 1e-11); the
\* state returned with the default filter is not the vacuum.
C4_VacuumEnergyWithinTenDecimals ==
    /\ (doc = "gss" /\ ns["result_w"] # Unbound) =>
          /\ \E r \in VibResults : ~Filtered(r)
          /\ \E r \in VibResults : Filtered(r)
          /\ \A r \in VibResults :
                /\ ~Filtered(r) =>
                      IsVacuumReport(r.report) /\ WithinTenDecimals(r.report.energy)
                /\ Filtered(r) => NoModalEmpty(r.report)
    /\ (doc = "library" /\ out # <<>> /\ out[1].kind = "solve"
          /\ out[1].type = "vibrational") =>
             /\ IsVacuumState(out[1].without)
             /\ WithinTenDecimals(out[1].without.energy)
             /\ out[1].with # NoEigenstate
             /\ ~IsVacuumState(out[1].with)
             /\ \A m \in DOMAIN out[1].with.aux : out[1].with.aux[m] = 1

\* the filter cell has run and stored a vacuum report whose energy is not 0
C4_Witness ==
    /\ doc = "gss"
    /\ ns["result_wo"] # Unbound
    /\ IsVacuumReport(ns["result_wo"].report)
    /\ ~IsZero(ns["result_wo"].report.energy)
    /\ ~Filtered(ns["result_wo"])

\* the names each statement of the README example reads
ReadmeReads(stmt) ==
    CASE stmt = "problem" -> {"driver"}
      [] stmt = "second_q_ops" -> {"problem"}
      [] stmt = "main_op" -> {"second_q_ops"}
      [] stmt = "num_particles" -> {"problem"}
      [] stmt = "num_spin_orbitals" -> {"problem"}
      [] stmt = "converter" -> {"mapper"}
      [] stmt = "qubit_op" -> {"converter", "main_op", "num_particles"}
      [] stmt = "init_state" -> {"num_spin_orbitals", "num_particles", "converter"}
      [] stmt = "ansatz" -> {"num_spin_orbitals"}
      [] stmt = "compose" -> {"ansatz", "init_state"}
      [] stmt = "algorithm" -> {"ansatz", "optimizer", "backend"}
      [] stmt = "result" -> {"algorithm", "qubit_op"}
      [] stmt = "electronic_structure_result" -> {"problem", "result"}
      [] OTHER -> {}

\* the steps the claim orders
KeySteps ==
    <<"driver", "problem", "second_q_ops", "qubit_op", "result",
      "electronic_structure_result">>

Position(stmt) ==
    IF \E i \in DOMAIN hist : hist[i].stmt = stmt
    THEN CHOOSE i \in DOMAIN hist : hist[i].stmt = stmt
    ELSE 0

\* C5: in every run of the README example driver construction, problem
\* construction, second_q_ops(), convert, compute_minimum_eigenvalue and
\* interpret happen in that order, each once; a statement is reached only
\* when every name it reads is bound (and the problem's driver has run
\* before its molecule data is read); and the operator given to the
\* eigensolver is the one convert made from second_q_ops()[0].
C5_PipelineOrder ==
    doc = "readme" =>
        /\ pc <= Len(ReadmeProgram) =>
              /\ \A n \in ReadmeReads(ReadmeProgram[pc]) : ns[n] # Unbound
              /\ ReadmeProgram[pc] \in {"num_particles", "num_spin_orbitals"} =>
                    ns["problem"].ran
        /\ \A i, j \in DOMAIN KeySteps :
              (i < j /\ Position(KeySteps[j]) # 0) =>
                  (Position(KeySteps[i]) # 0
                     /\ Position(KeySteps[i]) < Position(KeySteps[j]))
        /\ \A a, b \in DOMAIN hist : hist[a].stmt = hist[b].stmt => a = b
        /\ ns["result"] # Unbound =>
              /\ ns["main_op"] = ns["second_q_ops"].items[1]
              /\ ns["main_op"].name = "hamiltonian"
              /\ ns["qubit_op"] = Convert(ns["converter"], ns["main_op"], TRUE).op
              /\ ns["result"].operator = ns["qubit_op"]

\* the README example has run to its end
C5_Witness ==
    /\ Done("readme")
    /\ ns["electronic_structure_result"] # Unbound
    /\ Len(hist) = Len(ReadmeProgram)

\* C6: the Jordan-Wigner mapping gives one qubit per spin orbital: the
\* operator the notebook's Jordan-Wigner cell converts has as many qubits as
\* second_q_op[0] has spin orbitals, twice the molecular orbitals (4 for
\* H2), every Pauli label the cell stores has that length, and so has every
\* label of the stored second-quantized operator; the same count holds for
\* the operator the ground state solvers convert and for a direct call on
\* every molecule of the bounded set.
C6_JordanWignerOneQubitPerSpinOrbital ==
    /\ (doc = "es" /\ Len(out) >= 2) =>
          LET n == ns["second_q_op"].items[1].register_length
          IN  /\ n = 2 * ns["es_problem"].molecule_data.nmo
              /\ n = 4
              /\ out[2].object.mapper = "jordan_wigner"
              /\ out[2].object.num_qubits = n
              /\ \A i \in DOMAIN out[2].text : Len(out[2].text[i]) = n
              /\ \A i \in DOMAIN out[1].text : Len(out[1].text[i]) = n
    /\ (doc = "gss" /\ ns["res"] # Unbound) =>
          /\ ns["res"].operator.mapper = "jordan_wigner"
          /\ ns["res"].operator.num_qubits = 2 * ns["es_problem"].molecule_data.nmo
    /\ (doc = "library" /\ out # <<>> /\ out[1].kind = "hartree_fock"
          /\ out[1].converter.mapper = "jordan_wigner") =>
             out[1].operator.num_qubits = 2 * out[1].molecule.nmo

\* the notebook's Jordan-Wigner cell has printed its fifteen 4-qubit terms
C6_Witness ==
    /\ doc = "es"
    /\ Len(out) >= 2
    /\ out[2].object.num_qubits = 4
    /\ Len(out[2].text) = 15

\* C7: in each notebook the execution counts stored with the code cells
\* increase strictly in document order.
C7_ExecutionCountsIncrease ==
    doc \in {"es", "gss"} =>
        \A i, j \in DOMAIN hist :
            i < j => hist[i].execution_count < hist[j].execution_count

ElectronicPrints ==
    { i \in DOMAIN out : out[i].object.kind = "electronic_result" }

\* C8: the electronic ground state energy the notebook stores for the VQE
\* solve agrees, rounded to 9 decimals, with the one it stores for the
\* NumPy solve of the same problem with the same converter, and is not
\* below it.
C8_VQEMatchesNumPy ==
    doc = "gss" =>
        \A i, j \in ElectronicPrints :
            (/\ out[i].object.solver.name = "VQEUCCFactory"
             /\ out[j].object.solver.name = "NumPyMinimumEigensolver"
             /\ out[i].object.converter = out[j].object.converter
             /\ out[i].object.operator = out[j].object.operator) =>
                /\ Round9(out[i].text.elec) = Round9(out[j].text.elec)
                /\ FixLeq(out[j].text.elec, out[i].text.elec)

\* both solves have printed their reports, which differ in the last decimals
C8_Witness ==
    /\ doc = "gss"
    /\ Len(out) >= 2
    /\ out[1].object.solver.name = "VQEUCCFactory"
    /\ out[2].object.solver.name = "NumPyMinimumEigensolver"
    /\ out[1].text.elec # out[2].text.elec

Occupied(i, mol) ==
    \/ i <= mol.num_alpha
    \/ i > mol.nmo /\ i <= mol.nmo + mol.num_beta

HartreeFockSetsOccupied(circuit, mol) ==
    /\ Len(circuit.x_bits) = 2 * mol.nmo
    /\ \A i \in DOMAIN circuit.x_bits :
          circuit.x_bits[i] = (IF Occupied(i, mol) THEN 1 ELSE 0)
    /\ Ones(circuit.x_bits) = mol.num_alpha + mol.num_beta
    /\ Zeros(circuit.x_bits) = 2 * mol.nmo - (mol.num_alpha + mol.num_beta)

C10_TotalEnergyIsSum ==
    doc = "gss" =>
        \A i \in ElectronicPrints :
            /\ out[i].text.total = FixAdd(out[i].text.elec, out[i].text.nuc)
            /\ out[i].text.elec = out[i].text.computed

\* both electronic reports have been printed
C10_Witness ==
    /\ doc = "gss"
    /\ Cardinality(ElectronicPrints) = 2
    /\ out[2].text.total = Fix(TRUE, 1, 137306, 35753)

Square(x) == x * x

SumOfSquares(v) == Square(v[1]) + Square(v[2]) + Square(v[3])

\* t is the length of v rounded to the unit the components are counted in
IsMagnitude(t, v) ==
    /\ t >= 0
    /\ 4 * SumOfSquares(v) <= Square(2 * t + 1)
    /\ t = 0 \/ Square(2 * t - 1) <= 4 * SumOfSquares(v)

\* C11: in every electronic report the notebook stores, each component of
\* the total dipole moment (a.u.) is the nuclear component minus the
\* electronic component at the 8 decimals printed, and the printed Total
\* is the non-negative length of that vector.
C11_DipoleIsNuclearMinusElectronic ==
    doc = "gss" =>
        \A i \in ElectronicPrints :
            LET d == out[i].text.dipole
            IN  /\ \A k \in 1..3 : d.dipole[k] = d.nuclear[k] - d.electronic[k]
                /\ IsMagnitude(d.total, d.dipole)

\* both reports are printed: one with a dipole of -0.00000021 along z and
\* Total 0.00000021, one with a zero dipole
C11_Witness ==
    /\ doc = "gss"
    /\ Cardinality(ElectronicPrints) = 2
    /\ out[1].text.dipole.dipole = <<0, 0, -21>>
    /\ out[1].text.dipole.total = 21
    /\ out[2].text.dipole.dipole = <<0, 0, 0>>
    /\ out[2].text.dipole.nuclear[3] > 0

\* C12: once the filter cell has run, the converter held by both
\* GroundStateEigensolver objects it constructs (gsc_wo and gsc_w) is the
\* converter the cell builds from DirectMapper(), not the Jordan-Wigner
\* converter the first code cell bound.
C12_FilterCellUsesDirectMapperConverter ==
    (doc = "gss" /\ ns["gsc_wo"] # Unbound /\ ns["gsc_w"] # Unbound) =>
        \A g \in {"gsc_wo", "gsc_w"} :
            /\ ns[g].converter.mapper = "direct"
            /\ ns[g].converter = QubitConverter("direct", FALSE)
            /\ ns[g].converter.mapper # GSSQubitConverter.mapper

\* C13: in the README example the ansatz handed to VQE was constructed by
\* TwoLocal on as many qubits as the qubit operator returned by
\* converter.convert(main_op, num_particles=num_particles) has, and as
\* many as init_state has.
C13_AnsatzWidthMatchesQubitOp ==
    (doc = "readme" /\ ns["algorithm"] # Unbound) =>
        /\ ns["algorithm"].ansatz = ns["ansatz"]
        /\ ns["ansatz"].num_qubits = ns["qubit_op"].num_qubits
        /\ ns["ansatz"].num_qubits = ns["init_state"].num_qubits

(***************************************************************************)
(* Names bound and read, source line by source line                        *)
(*                                                                         *)
(* Each entry is one import or statement of a document: the step of the    *)
(* program it is executed in, the names it imports, the names it binds by  *)
(* assignment and the names it reads.  A statement reads its right-hand    *)
(* side before it binds its target.                                        *)
(***************************************************************************)
Line(step, imports, assigns, reads) ==
    [step |-> step, imports |-> imports, assigns |-> assigns, reads |-> reads]

\* README.md:69-127
ReadmeLines ==
    << Line("driver", {"PySCFDriver", "UnitsType"}, {}, {}),
       Line("driver", {"ElectronicStructureProblem"}, {}, {}),
       Line("driver", {}, {"driver"}, {"PySCFDriver", "UnitsType"}),
       Line("problem", {}, {"problem"}, {"ElectronicStructureProblem", "driver"}),
       Line("second_q_ops", {}, {"second_q_ops"}, {"problem"}),
       Line("main_op", {}, {"main_op"}, {"second_q_ops"}),
       Line("num_particles", {}, {"num_particles"}, {"problem"}),
       Line("num_spin_orbitals", {}, {"num_spin_orbitals"}, {"problem"}),
       Line("optimizer", {"L_BFGS_B"}, {}, {}),
       Line("optimizer", {}, {"optimizer"}, {"L_BFGS_B"}),
       Line("mapper", {"ParityMapper"}, {}, {}),
       Line("mapper", {"QubitConverter"}, {}, {}),
       Line("mapper", {}, {"mapper"}, {"ParityMapper"}),
       Line("converter", {}, {"converter"}, {"QubitConverter", "mapper"}),
       Line("qubit_op", {}, {"qubit_op"}, {"converter", "main_op", "num_particles"}),
       Line("init_state", {"HartreeFock"}, {}, {}),
       Line("init_state", {}, {"init_state"},
            {"HartreeFock", "num_spin_orbitals", "num_particles", "converter"}),
       Line("ansatz", {"TwoLocal"}, {}, {}),
       Line("ansatz", {}, {"ansatz"}, {"TwoLocal", "num_spin_orbitals"}),
       Line("compose", {}, {}, {"ansatz", "init_state"}),
       Line("backend", {"Aer"}, {}, {}),
       Line("backend", {}, {"backend"}, {"Aer"}),
       Line("algorithm", {"VQE"}, {}, {}),
       Line("algorithm", {}, {"algorithm"}, {"VQE", "ansatz", "optimizer", "backend"}),
       Line("result", {}, {"result"}, {"algorithm", "qubit_op"}),
       Line("result", {}, {}, {"result"}),
       Line("electronic_structure_result", {}, {"electronic_structure_result"},
            {"problem", "result"}),
       Line("electronic_structure_result", {}, {}, {"electronic_structure_result"}) >>

\* the code cells of the electronic structure notebook, lines 103-306
ESLines ==
    << Line("es1", {"PySCFDriver", "UnitsType", "Molecule"}, {}, {}),
       Line("es1", {}, {"molecule"}, {"Molecule"}),
       Line("es1", {}, {"driver"}, {"PySCFDriver", "molecule", "UnitsType"}),
       Line("es2", {"ElectronicStructureProblem"}, {}, {}),
       Line("es2", {"QubitConverter"}, {}, {}),
       Line("es2", {"JordanWignerMapper", "ParityMapper"}, {}, {}),
       Line("es3", {}, {"es_problem"}, {"ElectronicStructureProblem", "driver"}),
       Line("es3", {}, {"second_q_op"}, {"es_problem"}),
       Line("es3", {}, {}, {"second_q_op"}),
       Line("es4", {}, {"qubit_converter"}, {"QubitConverter", "JordanWignerMapper"}),
       Line("es4", {}, {"qubit_op"}, {"qubit_converter", "second_q_op"}),
       Line("es4", {}, {}, {"qubit_op"}),
       Line("es5", {}, {"qubit_converter"}, {"QubitConverter", "ParityMapper"}),
       Line("es5", {}, {"qubit_op"}, {"qubit_converter", "second_q_op", "es_problem"}),
       Line("es5", {}, {}, {"qubit_op"}),
       Line("es6", {"qiskit"}, {}, {}) >>

\* the code cells of the ground state solvers notebook, lines 29-319
GSSLines ==
    << Line("gss1", {"Aer"}, {}, {}),
       Line("gss1", {"PySCFDriver", "UnitsType", "Molecule"}, {}, {}),
       Line("gss1", {"ElectronicStructureProblem"}, {}, {}),
       Line("gss1", {"QubitConverter"}, {}, {}),
       Line("gss1", {"JordanWignerMapper"}, {}, {}),
       Line("gss1", {}, {"molecule"}, {"Molecule"}),
       Line("gss1", {}, {"driver"}, {"PySCFDriver", "molecule", "UnitsType"}),
       Line("gss1", {}, {"es_problem"}, {"ElectronicStructureProblem", "driver"}),
       Line("gss1", {}, {"qubit_converter"}, {"QubitConverter", "JordanWignerMapper"}),
       Line("gss2", {"NumPyMinimumEigensolver"}, {}, {}),
       Line("gss2", {}, {"numpy_solver"}, {"NumPyMinimumEigensolver"}),
       Line("gss3", {"StatevectorSimulator"}, {}, {}),
       Line("gss3", {"Aer"}, {}, {}),
       Line("gss3", {"QuantumInstance"}, {}, {}),
       Line("gss3", {"VQEUCCFactory"}, {}, {}),
       Line("gss3", {}, {"quantum_instance"}, {"QuantumInstance", "Aer"}),
       Line("gss3", {}, {"vqe_solver"}, {"VQEUCCFactory", "quantum_instance"}),
       Line("gss4", {"VQE"}, {}, {}),
       Line("gss4", {"TwoLocal"}, {}, {}),
       Line("gss4", {}, {"tl_circuit"}, {"TwoLocal"}),
       Line("gss4", {}, {}, {"tl_circuit"}),
       Line("gss4", {}, {"another_solver"},
            {"VQE", "tl_circuit", "QuantumInstance", "Aer"}),
       Line("gss5", {"GroundStateEigensolver"}, {}, {}),
       Line("gss5", {}, {"calc"},
            {"GroundStateEigensolver", "qubit_converter", "vqe_solver"}),
       Line("gss5", {}, {"res"}, {"calc", "es_problem"}),
       Line("gss5", {}, {}, {"res"}),
       Line("gss6", {}, {"calc"},
            {"GroundStateEigensolver", "qubit_converter", "numpy_solver"}),
       Line("gss6", {}, {"res"}, {"calc", "es_problem"}),
       Line("gss6", {}, {}, {"res"}),
       Line("gss7", {"GaussianForcesDriver"}, {}, {}),
       Line("gss7", {"NumPyMinimumEigensolverFactory"}, {}, {}),
       Line("gss7", {"VibrationalStructureProblem"}, {}, {}),
       Line("gss7", {"DirectMapper"}, {}, {}),
       Line("gss7", {}, {"driver"}, {"GaussianForcesDriver"}),
       Line("gss7", {}, {"vib_problem"}, {"VibrationalStructureProblem", "driver"}),
       Line("gss7", {}, {"qubit_covnerter"}, {"QubitConverter", "DirectMapper"}),
       Line("gss7", {}, {"solver_without_filter"}, {"NumPyMinimumEigensolverFactory"}),
       Line("gss7", {}, {"solver_with_filter"}, {"NumPyMinimumEigensolverFactory"}),
       Line("gss7", {}, {"gsc_wo"},
            {"GroundStateEigensolver", "qubit_converter", "solver_without_filter"}),
       Line("gss7", {}, {"result_wo"}, {"gsc_wo", "vib_problem"}),
       Line("gss7", {}, {"gsc_w"},
            {"GroundStateEigensolver", "qubit_converter", "solver_with_filter"}),
       Line("gss7", {}, {"result_w"}, {"gsc_w", "vib_problem"}),
       Line("gss7", {}, {}, {"result_wo"}),
       Line("gss7", {}, {}, {"result_w"}),
       Line("gss8", {"qiskit"}, {}, {}) >>

Lines(d) ==
    CASE d = "readme" -> ReadmeLines
      [] d = "es" -> ESLines
      [] d = "gss" -> GSSLines
      [] OTHER -> <<>>

\* the lines of document d whose step has been executed
Executed(d) ==
    { i \in DOMAIN Lines(d) :
         \E h \in DOMAIN hist : hist[h].stmt = Lines(d)[i].step }

\* the names an import or an assignment has bound before line i of d runs
BoundBefore(d, i) ==
    UNION { Lines(d)[j].imports \cup Lines(d)[j].assigns : j \in 1..(i - 1) }

\* the object line i binds to name n is read by a later executed line,
\* before n is bound again
ReadAfterwards(d, i, n) ==
    \E j \in Executed(d) :
        /\ j > i
        /\ n \in Lines(d)[j].reads
        /\ \A k \in (i + 1)..(j - 1) : n \notin Lines(d)[k].assigns

\* the names bound by an executed assignment of d and not read afterwards
NeverRead(d) ==
    { n \in Names : \E i \in Executed(d) :
                       n \in Lines(d)[i].assigns /\ ~ReadAfterwards(d, i, n) }

\* The names the line tables say are assigned are the names the replay has
\* bound, at every step of every document.
LinesAgreeWithNamespace ==
    \A d \in {"readme", "es", "gss"} :
        doc = d =>
            \A n \in Names :
                (ns[n] # Unbound) =
                   (\E i \in Executed(d) : n \in Lines(d)[i].assigns)

\* C14: in the README example and in each notebook, run top to bottom from
\* an empty namespace, every name an executed line reads has been bound by
\* an earlier import or assignment, and once the document has run to its
\* end every name bound by assignment has been read at least once
\* afterwards (no object is constructed and then never used).
C14_NamesBoundBeforeReadAndUsed ==
    \A d \in {"readme", "es", "gss"} :
        doc = d =>
            /\ \A i \in Executed(d) : Lines(d)[i].reads \subseteq BoundBefore(d, i)
            /\ Done(d) => NeverRead(d) = {}

====
